---- MODULE Spec2Model ----
(***************************************************************************)
(* The DAG workflow engine of day19_agent_orchestration/code.ts:            *)
(* DagRunner (addNode, addEdge, addConditionalEdges, nextNodes, run) with   *)
(* the reliability helpers withTimeout and withRetries.                     *)
(*                                                                          *)
(* Granularity: one action per synchronous block of the JavaScript event    *)
(* loop.  A node operation is a black box that is in flight between the     *)
(* step that invokes it and the step in which it settles; timers (the       *)
(* timeout of withTimeout, the backoff sleep of withRetries) fire in steps  *)
(* of their own.  Wall-clock values (the `at` field of a trace event, the   *)
(* durations) are not modelled: a timer may fire at any moment at which it  *)
(* is armed.                                                                *)
(***************************************************************************)
EXTENDS Integers, Sequences, FiniteSets, TLC

\* ------------------------------------------------------------------ bounds
\* Largest `retries` a registered node is given.
MaxRetries == 2

\* ------------------------------------------------------- program constants
MAX_STEPS == 12
BACKOFF_MS == 200

\* ------------------------------------------------------------ value shapes
EmptyRec == [k \in {} |-> 0]
NoErr == [kind |-> "none"]
\* No second invocation of run.
NoRun == [pc |-> "none"]

\* NodeDef: retries and timeoutMs are optional fields.
Node(name, fn) == [name |-> name, run |-> fn]
NodeR(name, fn, r) == [name |-> name, run |-> fn, retries |-> r]
NodeT(name, fn, ms) == [name |-> name, run |-> fn, timeoutMs |-> ms]
NodeRT(name, fn, r, ms) == [name |-> name, run |-> fn, retries |-> r, timeoutMs |-> ms]

\* Node operations (NodeFn).  "tag" writes, under its key, the identity of
\* the attempt that produced the value; "noop" returns {}.  `fails` tells
\* whether the operation can reject.
Tag(key, fails) == [fn |-> "tag", key |-> key, fails |-> fails]
Noop == [fn |-> "noop", fails |-> FALSE]
\* Operations that compute on the state they are given: a constant, the
\* successor and the double of a field of the state.
Const(key, val, fails) == [fn |-> "const", key |-> key, val |-> val, fails |-> fails]
Succ(key, src, fails) == [fn |-> "succ", key |-> key, src |-> src, fails |-> fails]
Twice(key, src, fails) == [fn |-> "twice", key |-> key, src |-> src, fails |-> fails]
\* An operation that counts its own executions in a field of the state:
\* s => ({ [key]: (s[key] ?? 0) + 1 }).
Count(key) == [fn |-> "count", key |-> key, fails |-> FALSE]
\* An operation whose result carries the key trace, which NodeResult
\* (Partial<State>) allows: s => ({ trace: [] }).
Retrace == [fn |-> "retrace", fails |-> FALSE]
\* The demo's classify: it sets route from a test of the question.
Classify == [fn |-> "classify", fails |-> FALSE]

\* The value a decide function returns: string | string[].
Str(n) == [isArray |-> FALSE, names |-> <<n>>]
Arr(ns) == [isArray |-> TRUE, names |-> ns]
\* decide functions: a constant one, and the demo's route test.
Always(ret) == [fn |-> "always", ret |-> ret]
ByRoute == [fn |-> "byRoute"]
\* A decide function that tests whether the state has a field:
\* s => (s[key] ? yes : no).
IfHas(key, yes, no) == [fn |-> "ifHas", key |-> key, yes |-> yes, no |-> no]
\* A decide function that goes on while a counter is below a limit:
\* s => (s[key] < limit ? name : []).
While(key, limit, name) == [fn |-> "while", key |-> key, limit |-> limit, name |-> name]

\* Calls of the caller's program.
CallAddNode(node) == [op |-> "addNode", node |-> node]
CallAddEdge(from, to) == [op |-> "addEdge", from |-> from, to |-> to]
CallAddCond(from, decide) == [op |-> "addConditionalEdges", from |-> from, decide |-> decide]
CallRun(initial, startNode) == [op |-> "run", initial |-> initial, startNode |-> startNode]

Initial(q) == [question |-> q, trace |-> <<>>]
\* The demo's question, which classify's pattern matches ("chunk",
\* "metadata", "rag"), and a question it does not match.
DemoQuestion == "Explain chunking and why metadata matters in RAG."
PlainQuestion == "Say hello."
needsRag(q) == q = DemoQuestion
\* An initial state that does not honour the State type: the object {}.
Bare == EmptyRec

\* -------------------------------------------------------- caller programs
RetryChoices == 0..MaxRetries
TimeoutChoices == {50}

\* A fans out to B and C through two static edges.
FanPrograms ==
  { << CallAddNode(Node("A", Tag("a", FALSE))),
       CallAddNode(b),
       CallAddNode(c),
       CallAddEdge("A", "B"),
       CallAddEdge("A", "C"),
       CallRun(Initial("q"), "A") >> :
    b \in {NodeR("B", Tag("b", TRUE), r) : r \in RetryChoices}
          \cup {NodeRT("B", Tag("b", TRUE), 1, ms) : ms \in TimeoutChoices},
    c \in {Node("C", Tag("c", TRUE))}
          \cup {NodeRT("C", Tag("c", TRUE), 1, ms) : ms \in TimeoutChoices} }

\* A -> B static, plus a conditional edge of A.
DedupPrograms ==
  { << CallAddNode(Node("A", Tag("a", FALSE))),
       CallAddNode(Node("B", Tag("b", FALSE))),
       CallAddEdge("A", "B"),
       CallAddCond("A", Always(d)),
       CallRun(Initial("q"), "A") >> :
    d \in {Str("B"), Arr(<<"B", "B">>), Arr(<<>>)} }

\* A node that always routes back to itself through a conditional edge.
LoopPrograms ==
  { << CallAddNode(Node("A", Tag("a", fails))),
       CallAddCond("A", Always(Str("A"))),
       CallRun(Initial("q"), "A") >> : fails \in BOOLEAN }

\* A node with a retry budget and possibly a timeout, followed by B.
RetryPrograms ==
  { << CallAddNode(a),
       CallAddNode(Node("B", Tag("b", FALSE))),
       CallAddEdge("A", "B"),
       CallRun(Initial("q"), "A") >> :
    a \in {NodeR("A", Tag("a", TRUE), r) : r \in RetryChoices}
          \cup {NodeRT("A", Tag("a", TRUE), r, ms) :
                   r \in RetryChoices, ms \in TimeoutChoices \cup {0}}
          \cup {NodeT("A", Tag("a", FALSE), ms) : ms \in TimeoutChoices} }

\* The name A registered twice, with two different definitions.
DupPrograms ==
  { << CallAddNode(Node("A", Tag("a", FALSE))),
       CallAddNode(Node("B", Tag("b", FALSE))),
       CallAddNode(NodeR("A", Tag("a2", TRUE), 1)),
       CallAddEdge("A", "B"),
       CallRun(Initial("q"), "A") >> }

\* Edges that name nodes nobody registered (X, START), as the demo does.
DanglingPrograms ==
  { << CallAddNode(Node("A", Tag("a", FALSE))),
       CallAddNode(NodeR("B", Tag("b", TRUE), 1)),
       CallAddEdge("A", "X"),
       CallAddEdge("A", "B"),
       CallAddEdge("X", "A"),
       CallRun(Initial("q"), "A") >>,
    << CallAddNode(Node("A", Tag("a", FALSE))),
       CallAddNode(NodeR("B", Tag("b", TRUE), 1)),
       CallAddEdge("A", "B"),
       CallAddCond("A", Always(Arr(<<"X", "Y">>))),
       CallRun(Initial("q"), "A") >>,
    << CallAddNode(Node("A", Tag("a", FALSE))),
       CallAddEdge("START", "A"),
       CallAddCond("Y", Always(Str("A"))),
       CallRun(Initial("q"), "START") >>,
    << CallAddNode(Node("A", Tag("a", FALSE))),
       CallAddEdge("X", "A"),
       CallAddCond("Y", Always(Str("Z"))),
       CallRun(Initial("q"), "A") >> }

\* The chain A -> B -> C: A sets x = 1, B sets y = x + 1, C sets z = y * 2.
Chain(b, initial) ==
  << CallAddNode(Node("A", Const("x", 1, FALSE))),
     CallAddNode(b),
     CallAddNode(Node("C", Twice("z", "y", FALSE))),
     CallAddEdge("A", "B"),
     CallAddEdge("B", "C"),
     CallRun(initial, "A") >>

ChainNodesB ==
  {Node("B", Succ("y", "x", FALSE)), NodeR("B", Succ("y", "x", TRUE), 1)}

ChainPrograms == {Chain(b, Initial("q")) : b \in ChainNodesB}

\* The chain run from the object {}.
UntypedPrograms == {Chain(b, Bare) : b \in ChainNodesB}

\* The diamond A -> {B1, B2} -> C, static edges only.  B1 and B2 both
\* write k, C reads it.
DiamondPrograms ==
  { << CallAddNode(Node("A", Const("x", 1, FALSE))),
       CallAddNode(b1),
       CallAddNode(Node("B2", Const("k", 7, FALSE))),
       CallAddNode(Node("C", Twice("z", "k", FALSE))),
       CallAddEdge("A", "B1"),
       CallAddEdge("A", "B2"),
       CallAddEdge("B1", "C"),
       CallAddEdge("B2", "C"),
       CallRun(Initial("q"), "A") >> :
    b1 \in {Node("B1", Succ("k", "x", FALSE)), NodeR("B1", Succ("k", "x", TRUE), 1)} }

\* The demo: its five nodes and its edges, START and END included, as
\* code.ts wires them.
Demo(q, startNode) ==
  << CallAddNode(Node("classify", Classify)),
     CallAddNode(Node("retrieve", Tag("retrievedChunks", FALSE))),
     CallAddNode(NodeRT("answer", Tag("draftAnswer", TRUE), 1, 25000)),
     CallAddNode(NodeRT("evaluate", Tag("evaluation", TRUE), 1, 25000)),
     CallAddNode(Node("log_trace", Noop)),
     CallAddEdge("START", "classify"),
     CallAddCond("classify", ByRoute),
     CallAddEdge("retrieve", "answer"),
     CallAddEdge("answer", "evaluate"),
     CallAddEdge("answer", "log_trace"),
     CallAddEdge("evaluate", "END"),
     CallRun(Initial(q), startNode) >>

\* The demo as code.ts runs it, and callers that start the same graph at
\* classify, with either kind of question.
DemoPrograms ==
  {Demo(q, n) : q \in {DemoQuestion, PlainQuestion}, n \in {"START", "classify"}}

\* A fans out to B and C; the one of the two named `from` has a conditional
\* edge whose decide function tests for the field its sibling writes.
Siblings(from, key) ==
  << CallAddNode(Node("A", Tag("a", FALSE))),
     CallAddNode(Node("B", Tag("b", FALSE))),
     CallAddNode(Node("C", Tag("c", FALSE))),
     CallAddNode(Node("D", Noop)),
     CallAddNode(Node("E", Noop)),
     CallAddEdge("A", "B"),
     CallAddEdge("A", "C"),
     CallAddCond(from, IfHas(key, "D", "E")),
     CallRun(Initial("q"), "A") >>

SiblingPrograms == {Siblings("B", "c"), Siblings("C", "b")}

\* Two calls of run on one instance, each with an initial state object of
\* its own; the second is made while the first is suspended.
TwoRunPrograms ==
  { << CallAddNode(Node("classify", Classify)),
       CallAddNode(Node("retrieve", Const("chunks", 1, FALSE))),
       CallAddNode(Node("answer", Const("draft", 2, FALSE))),
       CallAddCond("classify", ByRoute),
       CallAddEdge("retrieve", "answer"),
       CallRun(Initial(q1), "classify"),
       CallRun(Initial(q2), "classify") >> :
    q1 \in {DemoQuestion, PlainQuestion}, q2 \in {DemoQuestion, PlainQuestion} }

\* Two branches of unequal length that reconverge: A -> B1 -> C and
\* A -> B2 -> B3 -> C.
UnequalPrograms ==
  { << CallAddNode(Node("A", Tag("a", FALSE))),
       CallAddNode(Node("B1", Tag("b1", FALSE))),
       CallAddNode(Node("B2", Tag("b2", FALSE))),
       CallAddNode(Node("B3", Tag("b3", FALSE))),
       CallAddNode(Node("C", Tag("c", FALSE))),
       CallAddEdge("A", "B1"),
       CallAddEdge("A", "B2"),
       CallAddEdge("B1", "C"),
       CallAddEdge("B2", "B3"),
       CallAddEdge("B3", "C"),
       CallRun(Initial("q"), "A") >> }

\* A node that routes back to itself until it has run `limit` times: the
\* frontier empties one superstep short of the step budget, at the budget,
\* or not before the budget stops the loop.
CountedPrograms ==
  { << CallAddNode(Node("A", Count("n"))),
       CallAddCond("A", While("n", limit, "A")),
       CallRun(Initial("q"), "A") >> :
    limit \in {MAX_STEPS - 1, MAX_STEPS, MAX_STEPS + 1} }

\* A chain whose middle node returns a trace of its own.
RetracePrograms ==
  { << CallAddNode(Node("A", Tag("a", FALSE))),
       CallAddNode(Node("R", Retrace)),
       CallAddNode(NodeR("B", Tag("b", TRUE), 1)),
       CallAddEdge("A", "R"),
       CallAddEdge("R", "B"),
       CallRun(Initial("q"), "A") >> }

Programs ==
  FanPrograms \cup DedupPrograms \cup LoopPrograms \cup RetryPrograms
    \cup DupPrograms \cup DanglingPrograms \cup ChainPrograms
    \cup DiamondPrograms \cup DemoPrograms \cup SiblingPrograms
    \cup UnequalPrograms \cup CountedPrograms

\* ----------------------------------------------------------------- state
VARIABLES
  calls,      \* the calls the caller has still to make
  nodes,      \* DagRunner.nodes: name -> NodeDef
  edges,      \* DagRunner.edges
  pc,         \* position of run: "idle", "loop", "await", "done", "failed"
  state,      \* run's local `state`
  scheduled,  \* run's local `scheduled`
  step,       \* run's local `step`
  toRun,      \* run's local `toRun`
  tasks,      \* the promises handed to Promise.all, in toRun order
  leaked,     \* operations still in flight whose attempt was timed out
  joinErr,    \* the reason Promise.all rejected with, NoErr while it has not
  result,     \* what the caller of run received
  frontiers,  \* history: the toRun of every superstep executed so far
  timedOut,   \* history: the attempts withTimeout has rejected
  parked      \* the locals of a second invocation of run, see runOverlapping

vars == <<calls, nodes, edges, pc, state, scheduled, step, toRun, tasks,
          leaked, joinErr, result, frontiers, timedOut, parked>>

runVars == <<pc, state, scheduled, step, toRun, tasks, leaked, joinErr,
             result, frontiers, timedOut, parked>>

\* ------------------------------------------------------------ pure helpers
Range(s) == {s[i] : i \in 1..Len(s)}

RECURSIVE uniqFrom(_, _, _)
uniqFrom(s, i, acc) ==
  IF i > Len(s) THEN acc
  ELSE uniqFrom(s, i + 1, IF s[i] \in Range(acc) THEN acc ELSE Append(acc, s[i]))

\* Faulty variant of uniq: the frontier is taken as scheduled, duplicates kept.
uniqKeepsAll(s) == s

\* [...new Set(scheduled)]: first occurrences, in insertion order.
uniq(s) == uniqFrom(s, 1, <<>>)

\* node.retries ?? 0
Retries(node) == IF "retries" \in DOMAIN node THEN node.retries ELSE 0

\* withTimeout's `if (!ms) return p`: no timer for an absent or zero ms.
HasTimer(node) == "timeoutMs" \in DOMAIN node /\ node.timeoutMs # 0

\* The application of a decide function to a state.
Decide(d, st) ==
  CASE d.fn = "always" -> d.ret
    [] d.fn = "byRoute" ->
         IF "route" \in DOMAIN st /\ st.route = "rag" THEN Str("retrieve") ELSE Str("answer")
    [] d.fn = "ifHas" -> IF d.key \in DOMAIN st THEN Str(d.yes) ELSE Str(d.no)
    [] d.fn = "while" ->
         IF d.key \in DOMAIN st /\ st[d.key] < d.limit THEN Str(d.name) ELSE Arr(<<>>)

\* What one edge contributes to nextNodes.
edgeTargets(e, st) ==
  IF "to" \in DOMAIN e THEN <<e.to>>
  ELSE LET d == Decide(e.decide, st)
       IN IF d.isArray THEN d.names ELSE <<d.names[1]>>

RECURSIVE nextFrom(_, _, _, _)
nextFrom(es, from, st, i) ==
  IF i > Len(es) THEN <<>>
  ELSE (IF es[i].from = from THEN edgeTargets(es[i], st) ELSE <<>>)
         \o nextFrom(es, from, st, i + 1)

\* Faulty variant of nextNodes: the list is deduplicated before it is
\* returned.
nextNodesDeduplicated(from, st) == uniq(nextFrom(edges, from, st, 1))

nextNodes(from, st) == nextFrom(edges, from, st, 1)

\* Faulty variant of merge: a key already in the state keeps its value.
mergeKeepsExisting(st, out) == st @@ out

\* Faulty variant of merge: the result replaces the fields of the state,
\* only the trace is carried over.
mergeReplaces(st, out) == out @@ [trace |-> st.trace]

\* state = { ...state, ...r.out }
merge(st, out) == out @@ st

push(st, node, note) ==
  [st EXCEPT !.trace = Append(@, [node |-> node, note |-> note])]

\* Faulty variant of stepAfterTest: the step counter follows the number of
\* trace events.
stepAfterTestOnTrace(sched, stp) ==
  IF Len(sched) # 0 THEN Len(state.trace) + 1 ELSE stp

\* Faulty variant of loopCond: the comparison is <= instead of <.
loopCondInclusive(sched, stp) == Len(sched) # 0 /\ stp <= MAX_STEPS

\* The loop test of run, and the value of step after it (step++ is evaluated
\* only when scheduled.length is truthy).
loopCond(sched, stp) == Len(sched) # 0 /\ stp < MAX_STEPS
stepAfterTest(sched, stp) == IF Len(sched) # 0 THEN stp + 1 ELSE stp

\* The identity of an attempt: node, superstep, attempt number.
AttemptId(name, sstep, no) == <<name, sstep, no>>

\* The partial state a successful attempt returns.
OpOut(fn, id) ==
  CASE fn.fn = "tag" -> (fn.key :> id)
    [] fn.fn = "noop" -> EmptyRec

\* The fields of the object an operation is handed.  The trace is left out:
\* it is an array shared by every state object of the run.
snapshot(st) == [k \in (DOMAIN st) \ {"trace"} |-> st[k]]

\* node.run(state): the partial state the attempt `id` returns when it was
\* handed the object `given`.  Arithmetic on an absent field yields NaN in
\* JavaScript, written -1 here.
nodeRun(fn, id, given) ==
  CASE fn.fn \in {"tag", "noop"} -> OpOut(fn, id)
    [] fn.fn = "const" -> (fn.key :> fn.val)
    [] fn.fn = "count" ->
         (fn.key :> IF fn.key \in DOMAIN given THEN given[fn.key] + 1 ELSE 1)
    [] fn.fn = "retrace" -> [trace |-> <<>>]
    [] fn.fn = "classify" ->
         [route |-> IF needsRag(given.question) THEN "rag" ELSE "direct"]
    [] fn.fn = "succ" ->
         (fn.key :> IF fn.src \in DOMAIN given THEN given[fn.src] + 1 ELSE -1)
    [] fn.fn = "twice" ->
         (fn.key :> IF fn.src \in DOMAIN given THEN given[fn.src] * 2 ELSE -1)

\* ---------------------------------------------------------------- tasks
\* One element of the array handed to Promise.all: the promise of one
\* frontier member.  `attempt` is withRetries' counter (failed attempts so
\* far); while status is "running" attempt number attempt+1 is in flight.
\* Faulty variant of newTask: the operation is handed the initial state in
\* place of the current one.
newTaskInitialState(name) ==
  [node |-> name, status |-> "running", attempt |-> 0, out |-> EmptyRec,
   err |-> NoErr, wait |-> 0,
   given |-> [k \in (DOMAIN state) \cap {"question"} |-> state[k]]]

\* `given` is the object the attempt in flight was handed.
newTask(name) ==
  [node |-> name, status |-> "running", attempt |-> 0, out |-> EmptyRec,
   err |-> NoErr, wait |-> 0, given |-> snapshot(state)]

\* The errors.  The first two are plain Error objects told apart by their
\* message, `Unknown node: ${nodeName}` and `Timeout after ${ms}ms`; the
\* third is whatever the operation rejected with in its attempt number `no`.
unknownErr(name) == [kind |-> "UnknownNode", node |-> name]
timeoutErr(ms) == [kind |-> "Timeout", ms |-> ms]
opErr(no) == [kind |-> "OpError", attempt |-> no]
\* The TypeError of `state.trace.push` on a state without a trace.
traceErr == [kind |-> "TypeError"]
hasTrace(st) == "trace" \in DOMAIN st

\* Faulty variant of unknownTask: an unregistered name is skipped silently.
unknownTaskSkipped(name) ==
  [node |-> name, status |-> "resolved", attempt |-> 0, out |-> EmptyRec,
   err |-> NoErr, wait |-> 0, given |-> EmptyRec]

\* `if (!node) throw new Error(...)`: the async callback rejects at once,
\* before withRetries is entered.
unknownTask(name) ==
  [node |-> name, status |-> "rejected", attempt |-> 0, out |-> EmptyRec,
   err |-> unknownErr(name), wait |-> 0, given |-> EmptyRec]

isRegistered(name) == name \in DOMAIN nodes

\* Faulty variant of exhausted: gives up one attempt early.
exhaustedEarly(attempt, retries) == attempt >= retries

\* withRetries' catch block.
exhausted(attempt, retries) == attempt > retries

\* Faulty variant of withRetriesCatch: the next attempt is in flight at once,
\* without the backoff sleep.
withRetriesCatchNoBackoff(t, e) ==
  LET a == t.attempt + 1
  IN IF exhausted(a, Retries(nodes[t.node]))
     THEN [t EXCEPT !.attempt = a, !.status = "rejected", !.err = e]
     ELSE [t EXCEPT !.attempt = a, !.status = "running", !.err = e]

\* Faulty variant of withRetriesCatch: the error of the first failed attempt
\* is the one kept and thrown.
withRetriesCatchFirst(t, e) ==
  LET a == t.attempt + 1
      k == IF t.err = NoErr THEN e ELSE t.err
  IN IF exhausted(a, Retries(nodes[t.node]))
     THEN [t EXCEPT !.attempt = a, !.status = "rejected", !.err = k]
     ELSE [t EXCEPT !.attempt = a, !.status = "sleeping", !.err = k,
                    !.wait = BACKOFF_MS * a]

withRetriesCatch(t, e) ==
  LET a == t.attempt + 1
  IN IF exhausted(a, Retries(nodes[t.node]))
     THEN [t EXCEPT !.attempt = a, !.status = "rejected", !.err = e]
     ELSE [t EXCEPT !.attempt = a, !.status = "sleeping", !.err = e,
                    !.wait = BACKOFF_MS * a]

\* runOnce's two trace pushes.  On a state without a trace the first one
\* throws and the operation is not invoked.
runOnceStart(st, name) == IF hasTrace(st) THEN push(st, name, "start") ELSE st
runOnceDone(st, name) == push(st, name, "done")

\* The task of a registered frontier member after its callback has run to
\* its first await.
startedTask(name) ==
  IF hasTrace(state) THEN newTask(name)
  ELSE withRetriesCatch(newTask(name), traceErr)

\* Faulty variant of startAll: only the first frontier member has its start
\* event recorded before the frontier is awaited.
startAllFirstOnly(tr, st, i) ==
  IF tr # <<>> /\ isRegistered(tr[1]) THEN runOnceStart(st, tr[1]) ELSE st

RECURSIVE startAll(_, _, _)
startAll(tr, st, i) ==
  IF i > Len(tr) THEN st
  ELSE startAll(tr, IF isRegistered(tr[i]) THEN runOnceStart(st, tr[i]) ELSE st, i + 1)

\* The reason Promise.all rejects with: that of the first member to reject.
firstRejection(ts) ==
  IF \E i \in 1..Len(ts) : ts[i].status = "rejected"
  THEN ts[CHOOSE i \in 1..Len(ts) :
            /\ ts[i].status = "rejected"
            /\ \A j \in 1..(i - 1) : ts[j].status # "rejected"].err
  ELSE NoErr

\* The rejection Promise.all sees first among those already due when run
\* reaches its await: the callback of an unregistered name has rejected its
\* own promise, any other rejection has yet to travel through withRetries.
RECURSIVE unknownOnly(_)
unknownOnly(ts) ==
  IF ts = <<>> THEN <<>>
  ELSE (IF Head(ts).attempt = 0 /\ Head(ts).status = "rejected" THEN <<Head(ts)>> ELSE <<>>)
         \o unknownOnly(Tail(ts))
earlyRejection(ts) ==
  IF unknownOnly(ts) # <<>> THEN firstRejection(unknownOnly(ts)) ELSE firstRejection(ts)

\* Faulty variant of promiseAllResolved: one resolved member is enough, as
\* with Promise.race.
promiseRaceResolved(ts) == \E i \in 1..Len(ts) : ts[i].status = "resolved"

\* Faulty variant of promiseAllResolved: every member has settled, resolved
\* or rejected, as with Promise.allSettled.
promiseAllSettled(ts) ==
  \A i \in 1..Len(ts) : ts[i].status \in {"resolved", "rejected"}

\* Promise.all resolves once every member has resolved.
promiseAllResolved(ts) == \A i \in 1..Len(ts) : ts[i].status = "resolved"

\* Faulty variant of mergeLoop: the successors of a result are computed on
\* the state as it was before the result was merged.
RECURSIVE mergeLoopStaleDecide(_, _, _, _)
mergeLoopStaleDecide(ts, st, sched, i) ==
  IF i > Len(ts) THEN [state |-> st, scheduled |-> sched]
  ELSE mergeLoopStaleDecide(ts, merge(st, ts[i].out),
                            sched \o nextNodes(ts[i].node, st), i + 1)

\* The for loop over results: merge, then push the successors.
RECURSIVE mergeLoop(_, _, _, _)
mergeLoop(ts, st, sched, i) ==
  IF i > Len(ts) THEN [state |-> st, scheduled |-> sched]
  ELSE LET st2 == merge(st, ts[i].out)
       IN mergeLoop(ts, st2, sched \o nextNodes(ts[i].node, st2), i + 1)

\* The number of the superstep in progress.
superstep == Len(frontiers)

\* ------------------------------------------------------------------ Init
Init ==
  /\ calls \in Programs
  /\ nodes = EmptyRec
  /\ edges = <<>>
  /\ pc = "idle"
  /\ state = EmptyRec
  /\ scheduled = <<>>
  /\ step = 0
  /\ toRun = <<>>
  /\ tasks = <<>>
  /\ leaked = {}
  /\ joinErr = NoErr
  /\ result = [kind |-> "none"]
  /\ frontiers = <<>>
  /\ timedOut = {}
  /\ parked = NoRun

\* ------------------------------------------------------ graph construction
\* Faulty variant of addNodeTo: a name already registered keeps its first
\* definition.
addNodeKeepsFirst(ns, node) == ns @@ (node.name :> node)

\* this.nodes[node.name] = node
addNodeTo(ns, node) == (node.name :> node) @@ ns

addNode ==
  /\ pc = "idle"
  /\ calls # <<>>
  /\ Head(calls).op = "addNode"
  /\ nodes' = addNodeTo(nodes, Head(calls).node)
  /\ calls' = Tail(calls)
  /\ UNCHANGED <<edges, runVars>>

addEdge ==
  /\ pc = "idle"
  /\ calls # <<>>
  /\ Head(calls).op = "addEdge"
  /\ edges' = Append(edges, [from |-> Head(calls).from, to |-> Head(calls).to])
  /\ calls' = Tail(calls)
  /\ UNCHANGED <<nodes, runVars>>

addConditionalEdges ==
  /\ pc = "idle"
  /\ calls # <<>>
  /\ Head(calls).op = "addConditionalEdges"
  /\ edges' = Append(edges, [from |-> Head(calls).from, type |-> "conditional",
                             decide |-> Head(calls).decide])
  /\ calls' = Tail(calls)
  /\ UNCHANGED <<nodes, runVars>>

\* ------------------------------------------------------------------- run
\* run(initial, startNode) up to the first evaluation of the loop test.
run ==
  /\ pc = "idle"
  /\ calls # <<>>
  /\ Head(calls).op = "run"
  /\ state' = Head(calls).initial
  /\ scheduled' = <<Head(calls).startNode>>
  /\ step' = 0
  /\ pc' = "loop"
  /\ calls' = Tail(calls)
  /\ UNCHANGED <<parked, nodes, edges, toRun, tasks, leaked, joinErr, result,
                 frontiers, timedOut>>

\* The loop test succeeds: the body runs up to `await Promise.all`.  Every
\* callback of toRun.map runs synchronously to its first await: an
\* unregistered name rejects, a registered one pushes its start event and
\* invokes its operation.
runLoopEnter ==
  /\ pc = "loop"
  /\ loopCond(scheduled, step)
  /\ LET tr == uniq(scheduled)
         ts == [i \in 1..Len(tr) |->
                  IF isRegistered(tr[i]) THEN startedTask(tr[i]) ELSE unknownTask(tr[i])]
     IN /\ toRun' = tr
        /\ tasks' = ts
        /\ state' = startAll(tr, state, 1)
        /\ joinErr' = earlyRejection(ts)
        /\ frontiers' = Append(frontiers, tr)
  /\ step' = stepAfterTest(scheduled, step)
  /\ scheduled' = <<>>
  /\ pc' = "await"
  /\ UNCHANGED <<parked, calls, nodes, edges, leaked, result, timedOut>>

\* The loop test fails: the budget event is pushed if step >= MAX_STEPS, and
\* run returns state.
runLoopExit ==
  /\ pc = "loop"
  /\ ~loopCond(scheduled, step)
  /\ LET stp == stepAfterTest(scheduled, step)
         st == IF stp >= MAX_STEPS /\ hasTrace(state)
               THEN push(state, "SYSTEM", "max steps reached")
               ELSE state
         thrown == stp >= MAX_STEPS /\ ~hasTrace(state)
     IN /\ step' = stp
        /\ state' = st
        /\ result' = IF thrown THEN [kind |-> "throw", error |-> traceErr]
                      ELSE [kind |-> "return", value |-> st]
        /\ pc' = IF thrown THEN "failed" ELSE "done"
  /\ UNCHANGED <<parked, calls, nodes, edges, scheduled, toRun, tasks, leaked, joinErr,
                 frontiers, timedOut>>

\* The position of a node's last done event in a trace, 0 if it has none.
lastDone(tr, name) ==
  LET at == {j \in 1..Len(tr) : tr[j].node = name /\ tr[j].note = "done"}
  IN IF at = {} THEN 0 ELSE CHOOSE j \in at : \A k \in at : k <= j

\* Faulty variant of runJoin: the results are merged in the order in which
\* the operations completed.
runJoinAsCompleted ==
  /\ pc = "await"
  /\ promiseAllResolved(tasks)
  /\ LET byDone == SortSeq(tasks, LAMBDA a, b :
                      lastDone(state.trace, a.node) < lastDone(state.trace, b.node))
         m == mergeLoop(byDone, state, scheduled, 1)
     IN /\ state' = m.state
        /\ scheduled' = m.scheduled
  /\ pc' = "loop"
  /\ UNCHANGED <<parked, calls, nodes, edges, step, toRun, tasks, leaked, joinErr,
                 result, frontiers, timedOut>>

\* Promise.all resolved: the for loop over results.
runJoin ==
  /\ pc = "await"
  /\ promiseAllResolved(tasks)
  /\ LET m == mergeLoop(tasks, state, scheduled, 1)
     IN /\ state' = m.state
        /\ scheduled' = m.scheduled
  /\ pc' = "loop"
  /\ UNCHANGED <<parked, calls, nodes, edges, step, toRun, tasks, leaked, joinErr,
                 result, frontiers, timedOut>>

\* Faulty variant of runThrow: the rejection carries the state as well.
runThrowWithState ==
  /\ pc = "await"
  /\ joinErr # NoErr
  /\ pc' = "failed"
  /\ result' = [kind |-> "throw", error |-> joinErr, state |-> state]
  /\ UNCHANGED <<parked, calls, nodes, edges, state, scheduled, step, toRun, tasks,
                 leaked, joinErr, frontiers, timedOut>>

\* Promise.all rejected: the await throws and run rejects with the reason.
runThrow ==
  /\ pc = "await"
  /\ joinErr # NoErr
  /\ pc' = "failed"
  /\ result' = [kind |-> "throw", error |-> joinErr]
  /\ UNCHANGED <<parked, calls, nodes, edges, state, scheduled, step, toRun, tasks,
                 leaked, joinErr, frontiers, timedOut>>

\* ------------------------------------------------- one frontier member
\* A task that fails for good rejects its promise; the first such rejection
\* is the one Promise.all rejects with.
\* Faulty variant of settleJoin: the rejection of a task never reaches
\* Promise.all.
settleJoinLost(ts) == joinErr

settleJoin(ts) == IF joinErr = NoErr THEN firstRejection(ts) ELSE joinErr

\* Faulty variant of opResolve: the result is merged into state as soon as
\* the operation resolves.
opResolveMergesAtOnce(i) ==
  /\ tasks[i].status = "running"
  /\ LET t == tasks[i]
         id == AttemptId(t.node, superstep, t.attempt + 1)
         out == nodeRun(nodes[t.node].run, id, t.given)
     IN /\ state' = merge(runOnceDone(state, t.node), out)
        /\ tasks' = [tasks EXCEPT ![i] = [t EXCEPT !.status = "resolved", !.out = out]]
  /\ UNCHANGED <<parked, calls, nodes, edges, pc, scheduled, step, toRun, leaked,
                 joinErr, result, frontiers, timedOut>>

\* The operation of the attempt in flight resolves: runOnce pushes the done
\* event, withTimeout clears the timer and the task resolves.
opResolve(i) ==
  /\ tasks[i].status = "running"
  /\ LET t == tasks[i]
         id == AttemptId(t.node, superstep, t.attempt + 1)
     IN /\ state' = runOnceDone(state, t.node)
        /\ tasks' = [tasks EXCEPT ![i] =
                       [t EXCEPT !.status = "resolved",
                                 !.out = nodeRun(nodes[t.node].run, id, t.given)]]
  /\ UNCHANGED <<parked, calls, nodes, edges, pc, scheduled, step, toRun, leaked,
                 joinErr, result, frontiers, timedOut>>

\* The operation of the attempt in flight rejects: withRetries catches.
opReject(i) ==
  /\ tasks[i].status = "running"
  /\ nodes[tasks[i].node].run.fails
  /\ LET t == tasks[i]
         ts == [tasks EXCEPT ![i] = withRetriesCatch(t, opErr(t.attempt + 1))]
     IN /\ tasks' = ts
        /\ joinErr' = settleJoin(<<ts[i]>>)
  /\ UNCHANGED <<parked, calls, nodes, edges, pc, state, scheduled, step, toRun,
                 leaked, result, frontiers, timedOut>>

\* withTimeout's timer fires while the operation is in flight: the attempt
\* rejects, the operation itself goes on.
withTimeoutFire(i) ==
  /\ tasks[i].status = "running"
  /\ HasTimer(nodes[tasks[i].node])
  /\ LET t == tasks[i]
         id == AttemptId(t.node, superstep, t.attempt + 1)
         ts == [tasks EXCEPT ![i] =
                  withRetriesCatch(t, timeoutErr(nodes[t.node].timeoutMs))]
     IN /\ tasks' = ts
        /\ joinErr' = settleJoin(<<ts[i]>>)
        /\ leaked' = leaked \cup {id}
        /\ timedOut' = timedOut \cup {id}
  /\ UNCHANGED <<parked, calls, nodes, edges, pc, state, scheduled, step, toRun,
                 result, frontiers>>

\* The backoff sleep ends: withRetries calls fn() again, which runs runOnce
\* up to its await.
sleepDone(i) ==
  /\ tasks[i].status = "sleeping"
  /\ state' = runOnceStart(state, tasks[i].node)
  /\ LET t == [tasks[i] EXCEPT !.status = "running", !.wait = 0,
                               !.given = snapshot(state)]
         ts == [tasks EXCEPT ![i] =
                  IF hasTrace(state) THEN t ELSE withRetriesCatch(t, traceErr)]
     IN /\ tasks' = ts
        /\ joinErr' = settleJoin(<<ts[i]>>)
  /\ UNCHANGED <<parked, calls, nodes, edges, pc, scheduled, step, toRun, leaked,
                 result, frontiers, timedOut>>

\* Faulty variant of leakedResolve: the late result is merged all the same.
leakedResolveMerged(id) ==
  /\ id \in leaked
  /\ state' = merge(runOnceDone(state, id[1]), OpOut(nodes[id[1]].run, id))
  /\ leaked' = leaked \ {id}
  /\ UNCHANGED <<parked, calls, nodes, edges, pc, scheduled, step, toRun, tasks,
                 joinErr, result, frontiers, timedOut>>

\* The operation of a timed-out attempt resolves at last: runOnce goes on
\* to push its done event; its return value is dropped.
leakedResolve(id) ==
  /\ id \in leaked
  /\ state' = runOnceDone(state, id[1])
  /\ leaked' = leaked \ {id}
  /\ UNCHANGED <<parked, calls, nodes, edges, pc, scheduled, step, toRun, tasks,
                 joinErr, result, frontiers, timedOut>>

\* The operation of a timed-out attempt rejects: nobody is listening.
leakedReject(id) ==
  /\ id \in leaked
  /\ nodes[id[1]].run.fails
  /\ leaked' = leaked \ {id}
  /\ UNCHANGED <<parked, calls, nodes, edges, pc, state, scheduled, step, toRun, tasks,
                 joinErr, result, frontiers, timedOut>>

\* ------------------------------------------------------------------ Next
Next ==
  \/ addNode
  \/ addEdge
  \/ addConditionalEdges
  \/ run
  \/ runLoopEnter
  \/ runLoopExit
  \/ runJoin
  \/ runThrow
  \/ \E i \in 1..Len(tasks) : opResolve(i)
  \/ \E i \in 1..Len(tasks) : opReject(i)
  \/ \E i \in 1..Len(tasks) : withTimeoutFire(i)
  \/ \E i \in 1..Len(tasks) : sleepDone(i)
  \/ \E id \in leaked : leakedResolve(id)
  \/ \E id \in leaked : leakedReject(id)

Spec == Init /\ [][Next]_vars

\* ------------------------------------------------- two invocations of run
\* state, scheduled, step and toRun are locals of an invocation of run, and
\* the promises of its frontier belong to it.  With two invocations alive
\* the variables above are those of the invocation whose callback the event
\* loop is running, and parked holds those of the other one.
Current ==
  [pc |-> pc, state |-> state, scheduled |-> scheduled, step |-> step,
   toRun |-> toRun, tasks |-> tasks, leaked |-> leaked, joinErr |-> joinErr,
   result |-> result, frontiers |-> frontiers, timedOut |-> timedOut]

\* The locals of an invocation that has just been called.
called(initial, startNode) ==
  [pc |-> "loop", state |-> initial, scheduled |-> <<startNode>>, step |-> 0,
   toRun |-> <<>>, tasks |-> <<>>, leaked |-> {}, joinErr |-> NoErr,
   result |-> [kind |-> "none"], frontiers |-> <<>>, timedOut |-> {}]

\* The invocation r becomes the one whose callbacks run.
resume(r) ==
  /\ pc' = r.pc
  /\ state' = r.state
  /\ scheduled' = r.scheduled
  /\ step' = r.step
  /\ toRun' = r.toRun
  /\ tasks' = r.tasks
  /\ leaked' = r.leaked
  /\ joinErr' = r.joinErr
  /\ result' = r.result
  /\ frontiers' = r.frontiers
  /\ timedOut' = r.timedOut

\* Faulty variant of runOverlapping: run keeps state in a field of the
\* instance, so that the second invocation starts from the fields the
\* first has merged.
runOverlappingSharedState ==
  /\ pc \in {"await", "done", "failed"}
  /\ parked = NoRun
  /\ calls # <<>>
  /\ Head(calls).op = "run"
  /\ parked' = Current
  /\ resume(called(merge(snapshot(state), Head(calls).initial), Head(calls).startNode))
  /\ calls' = Tail(calls)
  /\ UNCHANGED <<nodes, edges>>

\* The caller calls run again while the first invocation is suspended at
\* its await, or has ended.
runOverlapping ==
  /\ pc \in {"await", "done", "failed"}
  /\ parked = NoRun
  /\ calls # <<>>
  /\ Head(calls).op = "run"
  /\ parked' = Current
  /\ resume(called(Head(calls).initial, Head(calls).startNode))
  /\ calls' = Tail(calls)
  /\ UNCHANGED <<nodes, edges>>

\* The event loop turns from a callback of one invocation to a callback of
\* the other.  An invocation is left only at an await or after its end.
switchRun ==
  /\ parked # NoRun
  /\ pc \in {"await", "done", "failed"}
  /\ parked' = Current
  /\ resume(parked)
  /\ UNCHANGED <<calls, nodes, edges>>

NextTwo ==
  \/ Next
  \/ runOverlapping
  \/ switchRun

InitTwo ==
  /\ calls \in Programs \cup TwoRunPrograms
  /\ nodes = EmptyRec
  /\ edges = <<>>
  /\ pc = "idle"
  /\ state = EmptyRec
  /\ scheduled = <<>>
  /\ step = 0
  /\ toRun = <<>>
  /\ tasks = <<>>
  /\ leaked = {}
  /\ joinErr = NoErr
  /\ result = [kind |-> "none"]
  /\ frontiers = <<>>
  /\ timedOut = {}
  /\ parked = NoRun

SpecTwo == InitTwo /\ [][NextTwo]_vars

\* The engine under the assumption that what can happen does happen: the
\* caller makes its calls, the event loop runs every callback that is due,
\* and every operation in flight settles or is timed out.
SpecFair == Spec /\ WF_vars(Next)

\* The same engine with callers that may also hand run the object {}.
InitUntyped ==
  /\ calls \in Programs \cup UntypedPrograms
  /\ nodes = EmptyRec
  /\ edges = <<>>
  /\ pc = "idle"
  /\ state = EmptyRec
  /\ scheduled = <<>>
  /\ step = 0
  /\ toRun = <<>>
  /\ tasks = <<>>
  /\ leaked = {}
  /\ joinErr = NoErr
  /\ result = [kind |-> "none"]
  /\ frontiers = <<>>
  /\ timedOut = {}
  /\ parked = NoRun

SpecUntyped == InitUntyped /\ [][Next]_vars

\* The same engine with graphs in which a node may return the key trace.
InitRetrace ==
  /\ calls \in Programs \cup RetracePrograms
  /\ nodes = EmptyRec
  /\ edges = <<>>
  /\ pc = "idle"
  /\ state = EmptyRec
  /\ scheduled = <<>>
  /\ step = 0
  /\ toRun = <<>>
  /\ tasks = <<>>
  /\ leaked = {}
  /\ joinErr = NoErr
  /\ result = [kind |-> "none"]
  /\ frontiers = <<>>
  /\ timedOut = {}
  /\ parked = NoRun

SpecRetrace == InitRetrace /\ [][Next]_vars

\* ====================================================================
\* Properties
\* ====================================================================
\* The fields of a state other than the trace.
Fields(st) == [k \in (DOMAIN st) \ {"trace"} |-> st[k]]

\* The attempt identities that node results have put into a state.
MergedIds(st) ==
  {st[k] : k \in (DOMAIN st) \cap
             {nodes[n].run.key : n \in {m \in DOMAIN nodes : nodes[m].run.fn = "tag"}}}

\* How many events of a trace carry this node and note.
CountNote(tr, name, note) ==
  Cardinality({i \in 1..Len(tr) : tr[i].node = name /\ tr[i].note = note})

\* In how many supersteps so far the name was a frontier member.
TimesScheduled(name) ==
  Cardinality({k \in 1..Len(frontiers) : name \in Range(frontiers[k])})

\* The attempts withRetries has made for a task.
AttemptsMade(t) ==
  IF t.status \in {"running", "resolved"} THEN t.attempt + 1 ELSE t.attempt

Built == pc # "idle"

FanGraph ==
  /\ Built
  /\ edges = <<[from |-> "A", to |-> "B"], [from |-> "A", to |-> "C"]>>

DedupGraph ==
  /\ Built
  /\ edges = <<[from |-> "A", to |-> "B"],
               [from |-> "A", type |-> "conditional", decide |-> Always(Str("B"))]>>

SelfLoopGraph ==
  /\ Built
  /\ edges = <<[from |-> "A", type |-> "conditional", decide |-> Always(Str("A"))]>>

BudgetEvent == [node |-> "SYSTEM", note |-> "max steps reached"]

\* C1: within a superstep nothing is merged, no successor is selected and
\* no later superstep is started unless every task of the current frontier
\* has resolved.
C1_Barrier ==
  [][ ( /\ Built
        /\ \/ Fields(state') # Fields(state)
           \/ scheduled' # scheduled
           \/ frontiers' # frontiers )
      => \A i \in 1..Len(tasks) : tasks[i].status = "resolved" ]_vars

\* A frontier of two in which one member has resolved and waits, unmerged,
\* for its sibling, which is between two attempts.
C1_Witness ==
  /\ pc = "await"
  /\ Len(tasks) = 2
  /\ tasks[2].status = "resolved"
  /\ tasks[1].status = "sleeping"
  /\ "c" \notin DOMAIN state

\* The state the i-th result's successors are computed on.
RECURSIVE prefixState(_, _, _)
prefixState(ts, st, i) ==
  IF i = 0 THEN st ELSE merge(prefixState(ts, st, i - 1), ts[i].out)

\* The names the outgoing edges of the nodes that just ran produce.
ProducedBy(ts, st) ==
  UNION { Range(edgeTargets(edges[j], prefixState(ts, st, i))) :
            <<i, j>> \in {x \in (1..Len(ts)) \X (1..Len(edges)) :
                            edges[x[2]].from = ts[x[1]].node} }

\* C2: the frontier after a superstep is exactly the set of names the
\* outgoing edges of the nodes that just ran produce, and the following
\* superstep has one task per name, started once, whatever the number of
\* edges that point to it.
C2_NextFrontier ==
  /\ [][ (pc = "await" /\ pc' = "loop")
           => Range(scheduled') = ProducedBy(tasks, state) ]_vars
  /\ [][ (pc = "loop" /\ pc' = "await")
           => /\ Range(toRun') = Range(scheduled)
              /\ Len(toRun') = Cardinality(Range(scheduled))
              /\ Len(tasks') = Len(toRun')
              /\ \A i \in 1..Len(toRun') : tasks'[i].node = toRun'[i]
              /\ \A n \in Range(scheduled) \cap DOMAIN nodes :
                   CountNote(state'.trace, n, "start")
                     = CountNote(state.trace, n, "start") + 1 ]_vars
  /\ [](FanGraph /\ Len(frontiers) >= 2 => frontiers[2] = <<"B", "C">>)
  /\ [](DedupGraph /\ Len(frontiers) >= 2 => frontiers[2] = <<"B">>)

\* B, reached by a static and by a conditional edge of A, has run once.
C2_Witness ==
  /\ DedupGraph
  /\ pc = "done"
  /\ frontiers = << <<"A">>, <<"B">> >>
  /\ CountNote(state.trace, "B", "start") = 1

\* C3: no run executes more than MAX_STEPS supersteps; the self loop, unless
\* its node fails, executes exactly MAX_STEPS of them, and then run returns
\* the state, whose trace holds the budget event, and does not throw.
C3_StepBudget ==
  /\ Len(frontiers) <= MAX_STEPS
  /\ SelfLoopGraph =>
       /\ pc = "failed" => (\E i \in 1..Len(tasks) : tasks[i].status = "rejected")
       /\ pc = "done" =>
            /\ Len(frontiers) = MAX_STEPS
            /\ result.kind = "return"
            /\ BudgetEvent \in Range(result.value.trace)

C3_Witness ==
  /\ SelfLoopGraph
  /\ pc = "done"
  /\ CountNote(state.trace, "A", "done") = MAX_STEPS

\* C4: a task makes at most retries+1 attempts, one start event each; it is
\* rejected only when all of them failed, and run fails only on a rejected
\* task.
C4_Retries ==
  Built =>
    /\ \A i \in 1..Len(tasks) :
         LET t == tasks[i]
         IN /\ t.node \in DOMAIN nodes =>
                 /\ AttemptsMade(t) <= Retries(nodes[t.node]) + 1
                 /\ TimesScheduled(t.node) = 1 =>
                      CountNote(state.trace, t.node, "start") = AttemptsMade(t)
                 /\ t.status = "rejected" => t.attempt = Retries(nodes[t.node]) + 1
                 /\ t.status = "sleeping" => t.attempt <= Retries(nodes[t.node])
            /\ t.attempt > 0 => t.err # NoErr
    /\ pc = "failed" => \E i \in 1..Len(tasks) : tasks[i].status = "rejected"

\* retries = 2, two failed attempts, then a success: the run completes with
\* three start events for the node and the value of the third attempt.
C4_Witness ==
  /\ pc = "done"
  /\ "A" \in DOMAIN nodes
  /\ Retries(nodes["A"]) = 2
  /\ "a" \in DOMAIN state
  /\ state.a = AttemptId("A", 1, 3)
  /\ CountNote(state.trace, "A", "start") = 3
  /\ result.kind = "return"

\* The attempts of a task's node that were timed out in this superstep.
TimedOutOf(t) == {id \in timedOut : id[1] = t.node /\ id[2] = superstep}

\* C5: an attempt still in flight when its timer fires is one failed attempt
\* of the retry budget, and its result never reaches State, whatever the
\* operation does later.
C5_Timeout ==
  Built =>
    /\ leaked \subseteq timedOut
    /\ timedOut \cap MergedIds(state) = {}
    /\ \A i \in 1..Len(tasks) :
         LET t == tasks[i]
         IN /\ {t.out[k] : k \in DOMAIN t.out} \cap timedOut = {}
            /\ t.node \in DOMAIN nodes =>
                 /\ Cardinality(TimedOutOf(t)) <= t.attempt
                 /\ Cardinality(TimedOutOf(t)) = Retries(nodes[t.node]) + 1 =>
                      /\ t.status = "rejected"
                      /\ t.err = timeoutErr(nodes[t.node].timeoutMs)

\* The first attempt of A was timed out and resolved afterwards; the run
\* completed with the value of the second attempt.
C5_Witness ==
  /\ pc = "done"
  /\ AttemptId("A", 1, 1) \in timedOut
  /\ leaked = {}
  /\ CountNote(state.trace, "A", "done") = 2
  /\ state.a = AttemptId("A", 1, 2)

\* Some member of the current frontier has failed for good.
Failing == \E i \in 1..Len(tasks) : tasks[i].status = "rejected"

\* C6: once a frontier member has failed for good, run can only fail, and
\* its failure is due at once: no further superstep is started, nothing is
\* merged or scheduled, and State holds no output of any member of the
\* failing superstep.
C6_FailStop ==
  /\ [][ Failing =>
           /\ Fields(state') = Fields(state)
           /\ scheduled' = scheduled
           /\ step' = step
           /\ frontiers' = frontiers
           /\ pc' \in {"await", "failed"} ]_vars
  /\ [](Failing => /\ joinErr # NoErr
                   /\ pc \in {"await", "failed"}
                   /\ pc = "await" => ENABLED runThrow
                   /\ \A id \in MergedIds(state) : id[2] < superstep)

\* run has failed although a sibling of the failing node had resolved; the
\* sibling's output is not in State.
C6_Witness ==
  /\ pc = "failed"
  /\ Len(tasks) = 2
  /\ tasks[1].status = "resolved"
  /\ tasks[2].status = "rejected"
  /\ tasks[2].attempt > 0
  /\ DOMAIN tasks[1].out = {"b"}
  /\ "b" \notin DOMAIN state

\* A frontier member that used up its attempts, as opposed to an
\* unregistered name.
ExhaustedTask(t) == t.status = "rejected" /\ t.attempt > 0

\* C7 as stated: the failure delivered for an exhausted node is a
\* NodeExecutionError carrying the node's name and the last error.
C7_NodeExecutionError ==
  (pc = "failed" /\ result.error.kind # "UnknownNode") =>
    \E i \in 1..Len(tasks) :
      /\ ExhaustedTask(tasks[i])
      /\ result.error.kind = "NodeExecutionError"
      /\ result.error.node = tasks[i].node
      /\ result.error.cause = tasks[i].err

\* C7 amended: the failure delivered is the bare error of the last attempt
\* of a node that used up its attempts, the operation's own error or
\* withTimeout's, with no wrapper and no node name added.
C7_LastError ==
  (pc = "failed" /\ result.error.kind # "UnknownNode") =>
    \E i \in 1..Len(tasks) :
      LET t == tasks[i]
      IN /\ ExhaustedTask(t)
         /\ result.error = t.err
         /\ t.attempt = Retries(nodes[t.node]) + 1
         /\ \/ result.error = opErr(t.attempt)
            \/ /\ HasTimer(nodes[t.node])
               /\ result.error = timeoutErr(nodes[t.node].timeoutMs)
         /\ "node" \notin DOMAIN result.error

\* retries = 2 and three failed attempts: run rejects with the third error.
C7_Witness ==
  /\ pc = "failed"
  /\ Len(tasks) = 1
  /\ tasks[1].attempt = 3
  /\ result.error = opErr(3)

\* C8 as stated: a failed run hands the accumulated State to the caller
\* together with the error.
C8_StateWithError ==
  pc = "failed" => ("state" \in DOMAIN result /\ result.state = state)

\* C8 amended: a failed run hands the caller the error and nothing else;
\* State reaches the caller only when run returns.
C8_ErrorOnly ==
  /\ pc = "failed" => result = [kind |-> "throw", error |-> joinErr]
  /\ pc = "done" => (result.kind = "return" /\ Fields(result.value) = Fields(state))
  /\ pc \in {"idle", "loop", "await"} => result = [kind |-> "none"]

\* run failed in its second superstep: the output of the first is in State
\* and the caller has the error only.
C8_Witness ==
  /\ pc = "failed"
  /\ superstep = 2
  /\ "a" \in DOMAIN state
  /\ DOMAIN result = {"kind", "error"}

\* An addNode call for a name that is registered already.
DuplicateAddNode ==
  /\ pc = "idle"
  /\ calls # <<>>
  /\ Head(calls).op = "addNode"
  /\ Head(calls).node.name \in DOMAIN nodes

\* C9 as stated: addNode rejects a registered name and leaves the earlier
\* definition in place.
C9_DuplicateRejected ==
  [][ DuplicateAddNode => nodes' = nodes ]_vars

\* C9 amended: addNode never rejects; for a registered name the new
\* definition replaces the earlier one, and it is the one run executes.
C9_LastWins ==
  /\ [][ DuplicateAddNode =>
           /\ nodes'[Head(calls).node.name] = Head(calls).node
           /\ DOMAIN nodes' = DOMAIN nodes
           /\ calls' = Tail(calls)
           /\ pc' = "idle" ]_vars
  /\ [](\A n \in DOMAIN nodes : nodes[n].name = n)
  /\ []((Built /\ "A" \in DOMAIN nodes /\ nodes["A"].run = Tag("a2", TRUE))
          => "a" \notin DOMAIN state)

\* A was registered twice and run has executed its second definition.
C9_Witness ==
  /\ pc = "done"
  /\ nodes["A"] = NodeR("A", Tag("a2", TRUE), 1)
  /\ state.a2 = AttemptId("A", 1, 2)

\* An addEdge or addConditionalEdges call.
EdgeCall ==
  /\ pc = "idle"
  /\ calls # <<>>
  /\ Head(calls).op \in {"addEdge", "addConditionalEdges"}

\* The unregistered names of the current frontier, in toRun order.
UnknownIn(ts) == {i \in 1..Len(ts) : ts[i].node \notin DOMAIN nodes}

\* C10: edges are accepted whatever names they carry; an unregistered name
\* fails run when it enters a frontier, with the unknown-node error for that
\* name, without any attempt and with nothing of that superstep merged; a
\* name that never enters a frontier raises nothing.
C10_UnknownNode ==
  /\ [][ EdgeCall =>
           /\ Len(edges') = Len(edges) + 1
           /\ edges'[Len(edges')].from = Head(calls).from
           /\ nodes' = nodes
           /\ calls' = Tail(calls)
           /\ pc' = "idle" ]_vars
  /\ []((Built /\ UnknownIn(tasks) # {}) =>
          LET u == CHOOSE i \in UnknownIn(tasks) : \A j \in UnknownIn(tasks) : i <= j
              name == tasks[u].node
          IN /\ joinErr = unknownErr(name)
             /\ pc \in {"await", "failed"}
             /\ pc = "failed" => result.error = unknownErr(name)
             /\ \A i \in UnknownIn(tasks) :
                  /\ tasks[i].status = "rejected"
                  /\ tasks[i].attempt = 0
                  /\ CountNote(state.trace, tasks[i].node, "start") = 0
             /\ \A id \in MergedIds(state) : id[2] < superstep)
  /\ []((pc = "failed" /\ result.error.kind = "UnknownNode") =>
          /\ result.error.node \in Range(toRun)
          /\ result.error.node \notin DOMAIN nodes)

\* The edge A -> X was accepted, and run failed on X when X entered the
\* frontier beside B, which had started.
C10_Witness ==
  /\ pc = "failed"
  /\ toRun = <<"X", "B">>
  /\ [from |-> "A", to |-> "X"] \in Range(edges)
  /\ result.error = unknownErr("X")
  /\ CountNote(state.trace, "B", "start") >= 1
  /\ DOMAIN Fields(state) = {"question", "a"}

\* ------------------------------------------------------------------- C11
\* A sequence without repeated elements.
NoDup(s) == \A i, j \in 1..Len(s) : s[i] = s[j] => i = j

\* The names the edges leaving `from` contribute, counted with repetition.
RECURSIVE CountTargets(_, _, _)
CountTargets(from, st, i) ==
  IF i > Len(edges) THEN 0
  ELSE (IF edges[i].from = from THEN Len(edgeTargets(edges[i], st)) ELSE 0)
         + CountTargets(from, st, i + 1)

\* The names the edges leaving `from` contribute, as a set.
TargetSet(from, st) ==
  UNION {Range(edgeTargets(edges[j], st)) :
           j \in {x \in 1..Len(edges) : edges[x].from = from}}

\* The graph of DedupPrograms whose conditional edge returns d.
DedupGraphWith(d) ==
  /\ Built
  /\ edges = <<[from |-> "A", to |-> "B"],
               [from |-> "A", type |-> "conditional", decide |-> Always(d)]>>

\* C11 as stated: the list nextNodes returns for a node that just ran holds
\* no name twice.
C11_Deduplicated ==
  (pc = "await" /\ promiseAllResolved(tasks)) =>
    \A i \in 1..Len(tasks) :
      NoDup(nextNodes(tasks[i].node, prefixState(tasks, state, i)))

\* C11 amended: nextNodes returns the targets of the edges leaving `from`
\* in edge order, one entry per static edge and per name a decide returns,
\* repeated names included; run appends that list to scheduled as it is, and
\* names are deduplicated only when the next frontier is taken from
\* scheduled.
C11_Concatenation ==
  /\ [](Built =>
          \A from \in DOMAIN nodes :
            /\ Len(nextNodes(from, state)) = CountTargets(from, state, 1)
            /\ Range(nextNodes(from, state)) = TargetSet(from, state))
  /\ [](DedupGraphWith(Str("B")) => nextNodes("A", state) = <<"B", "B">>)
  /\ [](DedupGraphWith(Arr(<<"B", "B">>))
          => nextNodes("A", state) = <<"B", "B", "B">>)
  /\ [](DedupGraphWith(Arr(<<>>)) => nextNodes("A", state) = <<"B">>)
  /\ [][ (pc = "await" /\ pc' = "loop" /\ Len(tasks) = 1)
           => scheduled' = nextNodes(tasks[1].node, state') ]_vars
  /\ [][ (pc = "loop" /\ pc' = "await") => NoDup(toRun') ]_vars

\* A has run and nextNodes has handed run the name B twice, once for the
\* static edge and once for the conditional one.
C11_Witness ==
  /\ DedupGraph
  /\ pc = "loop"
  /\ Len(frontiers) = 1
  /\ scheduled = <<"B", "B">>

\* ------------------------------------------------------------------- C12
\* The keys the results of a frontier carry.
OutKeys(ts) == UNION {DOMAIN ts[i].out : i \in 1..Len(ts)}

\* The last task, in result order, whose result carries the key.
LastWriter(ts, k) ==
  CHOOSE i \in 1..Len(ts) :
    /\ k \in DOMAIN ts[i].out
    /\ \A j \in (i + 1)..Len(ts) : k \notin DOMAIN ts[j].out

\* C12: during a run no key ever leaves State; the merge at the end of a
\* superstep adds exactly the keys of the results, gives every key of a
\* result the value of that result and leaves every other key as it was.
C12_KeysGrow ==
  /\ [][ Built => DOMAIN state \subseteq DOMAIN state' ]_vars
  /\ [][ (pc = "await" /\ pc' = "loop") =>
           /\ DOMAIN state' = DOMAIN state \cup OutKeys(tasks)
           /\ \A k \in OutKeys(tasks) :
                state'[k] = tasks[LastWriter(tasks, k)].out[k]
           /\ \A k \in DOMAIN state \ OutKeys(tasks) : state'[k] = state[k] ]_vars

\* The second merge of the self loop: the key a, present since the first
\* superstep, now holds the value of the second one, beside the question.
C12_Witness ==
  /\ SelfLoopGraph
  /\ pc = "loop"
  /\ superstep = 2
  /\ state.a = AttemptId("A", 2, 1)
  /\ state.question = "q"

\* ------------------------------------------------------------------- C14
ChainGraph ==
  /\ Built
  /\ edges = <<[from |-> "A", to |-> "B"], [from |-> "B", to |-> "C"]>>

\* The run was started from the object {}.
FromBare == Built /\ "question" \notin DOMAIN state

\* Every attempt in flight, and every result waiting at the barrier, was
\* handed an object holding all fields merged so far.
GivenAllMerged ==
  Built =>
    \A i \in 1..Len(tasks) :
      (tasks[i].status = "running" \/ (tasks[i].status = "resolved" /\ pc = "await"))
        => tasks[i].given = Fields(state)

\* C14 as stated: every node is handed the fields merged in the supersteps
\* before its own, and the chain run from {} returns {x: 1, y: 2, z: 4}.
C14_FromEmpty ==
  /\ GivenAllMerged
  /\ (ChainGraph /\ FromBare) =>
       /\ pc = "failed" => result.error.kind = "OpError"
       /\ pc = "done" => result.value = [x |-> 1, y |-> 2, z |-> 4]

\* C14 amended: every node is handed the fields merged in the supersteps
\* before its own; the chain run from a state holding a question and an
\* empty trace returns x = 1, y = 2, z = 4 beside the question and the
\* trace, and run from {} it fails in its first superstep with the TypeError
\* of the trace push, before any operation is invoked.
C14_Visible ==
  /\ GivenAllMerged
  /\ (ChainGraph /\ ~FromBare) =>
       /\ \A i \in 1..Len(tasks) :
            /\ (tasks[i].node = "B" /\ tasks[i].status = "running")
                 => tasks[i].given = [question |-> "q", x |-> 1]
            /\ (tasks[i].node = "C" /\ tasks[i].status = "running")
                 => tasks[i].given = [question |-> "q", x |-> 1, y |-> 2]
       /\ pc = "done" =>
            /\ Fields(result.value) = [question |-> "q", x |-> 1, y |-> 2, z |-> 4]
            /\ DOMAIN result.value = {"question", "trace", "x", "y", "z"}
            /\ frontiers = << <<"A">>, <<"B">>, <<"C">> >>
       /\ pc = "failed" => result.error.kind = "OpError"
  /\ (ChainGraph /\ FromBare) =>
       /\ state = Bare
       /\ pc \in {"loop", "await", "failed"}
       /\ Len(frontiers) <= 1
       /\ \A i \in 1..Len(tasks) : tasks[i].status \in {"sleeping", "rejected"}
       /\ pc = "failed" => result = [kind |-> "throw", error |-> traceErr]

\* The chain has returned z = 4 after B's first attempt had failed: the
\* second attempt of B was handed x as well.
C14_Witness ==
  /\ ChainGraph
  /\ pc = "done"
  /\ state.z = 4
  /\ CountNote(state.trace, "B", "start") = 2

\* ------------------------------------------------------------------- C13
\* Every operation of the graph is a function of the state it is handed
\* that neither fails nor is timed.
DeterministicGraph ==
  /\ Built
  /\ \A n \in DOMAIN nodes :
       /\ nodes[n].run.fn \in {"const", "succ", "twice", "noop"}
       /\ ~nodes[n].run.fails
       /\ ~HasTimer(nodes[n])
       /\ Retries(nodes[n]) = 0
  /\ \A k \in 1..Len(frontiers) : Range(frontiers[k]) \subseteq DOMAIN nodes

\* The reference run: every frontier member completes at once, in frontier
\* order.
RECURSIVE refDone(_, _, _)
refDone(tr, st, i) ==
  IF i > Len(tr) THEN st ELSE refDone(tr, runOnceDone(st, tr[i]), i + 1)

RECURSIVE refLoop(_, _, _, _)
refLoop(st, sched, stp, fr) ==
  IF ~loopCond(sched, stp)
  THEN [state |-> IF stepAfterTest(sched, stp) >= MAX_STEPS
                  THEN push(st, "SYSTEM", "max steps reached") ELSE st,
        frontiers |-> fr]
  ELSE LET tr == uniq(sched)
           ts == [i \in 1..Len(tr) |->
                    [node |-> tr[i],
                     out |-> nodeRun(nodes[tr[i]].run, <<>>, snapshot(st))]]
           m == mergeLoop(ts, refDone(tr, startAll(tr, st, 1), 1), <<>>, 1)
       IN refLoop(m.state, m.scheduled, stp + 1, Append(fr, tr))

\* The reference run from the initial state and start node of the run in
\* progress.
Reference ==
  refLoop(Initial(state.question), <<frontiers[1][1]>>, 0, <<>>)

IsPrefix(s, t) == Len(s) <= Len(t) /\ \A i \in 1..Len(s) : s[i] = t[i]

\* C13 as stated: whatever the completion order inside the frontiers, a run
\* returns the State of the reference run, trace included, after the same
\* frontiers.
C13_SameState ==
  (DeterministicGraph /\ pc = "done") =>
    /\ frontiers = Reference.frontiers
    /\ state = Reference.state

\* C13 amended: whatever the completion order inside the frontiers, a run
\* goes through the frontiers of the reference run and returns its State in
\* every field but the trace; the trace has the events of the reference
\* run, the done events of a superstep in completion order.
C13_SameFields ==
  (DeterministicGraph /\ Len(frontiers) >= 1) =>
    /\ IsPrefix(frontiers, Reference.frontiers)
    /\ pc # "failed"
    /\ pc = "done" =>
         /\ frontiers = Reference.frontiers
         /\ Fields(state) = Fields(Reference.state)
         /\ Fields(result.value) = Fields(Reference.state)
         /\ Len(state.trace) = Len(Reference.state.trace)
         /\ \A e \in Range(Reference.state.trace) :
              CountNote(state.trace, e.node, e.note)
                = CountNote(Reference.state.trace, e.node, e.note)

\* The diamond has returned after B2 completed before B1: the trace differs
\* from that of the reference run, the fields do not.
C13_Witness ==
  /\ DeterministicGraph
  /\ pc = "done"
  /\ "B1" \in DOMAIN nodes
  /\ lastDone(state.trace, "B2") < lastDone(state.trace, "B1")
  /\ state.trace # Reference.state.trace
  /\ state.k = 7
  /\ state.z = 14

\* ------------------------------------------------------------------- C15
\* The demo's graph, run from classify.
DemoGraph ==
  /\ Built
  /\ "classify" \in DOMAIN nodes
  /\ Len(edges) = 6

DemoFromClassify == DemoGraph /\ frontiers # <<>> /\ frontiers[1] = <<"classify">>

\* The two names the demo's decide function chooses between.
Chosen(st) == IF st.route = "rag" THEN "retrieve" ELSE "answer"
NotChosen(st) == IF st.route = "rag" THEN "answer" ELSE "retrieve"

\* C15 as stated: once classify's output is merged, the node decide names is
\* the only one of the two branches that is ever started.
C15_OtherNeverStarted ==
  (DemoFromClassify /\ "route" \in DOMAIN state) =>
    CountNote(state.trace, NotChosen(state), "start") = 0

\* C15 amended: the conditional edge is evaluated on the state that holds
\* classify's own output and schedules the node decide names and no other;
\* the node of the other branch is started in the run only if another edge
\* leads to it: never for retrieve, and for answer in the superstep after
\* retrieve, through the static edge retrieve -> answer.
C15_OnlyDecided ==
  /\ [][ (DemoFromClassify /\ pc = "await" /\ pc' = "loop" /\ toRun = <<"classify">>)
           => /\ "route" \notin DOMAIN state
              /\ state'.route = (IF needsRag(state.question) THEN "rag" ELSE "direct")
              /\ scheduled' = <<Chosen(state')>> ]_vars
  /\ []((DemoFromClassify /\ Len(frontiers) >= 2) =>
          /\ "route" \in DOMAIN state
          /\ frontiers[2] = <<Chosen(state)>>
          /\ state.route = "direct" =>
               /\ \A k \in 1..Len(frontiers) : "retrieve" \notin Range(frontiers[k])
               /\ CountNote(state.trace, "retrieve", "start") = 0
               /\ "retrievedChunks" \notin DOMAIN state
          /\ state.route = "rag" =>
               /\ \A k \in 1..Len(frontiers) :
                    "answer" \in Range(frontiers[k]) => k = 3
               /\ CountNote(state.trace, "answer", "start") > 0 =>
                    /\ CountNote(state.trace, "retrieve", "done") = 1
                    /\ "retrievedChunks" \in DOMAIN state)
  /\ [](DemoFromClassify =>
          \A e \in Range(state.trace) :
            e.note = "start" => \E k \in 1..Len(frontiers) : e.node \in Range(frontiers[k]))

\* The question did not ask for retrieval: answer has run, and retrieve was
\* never started.
C15_Witness ==
  /\ DemoFromClassify
  /\ state.question = PlainQuestion
  /\ Len(frontiers) >= 3
  /\ state.route = "direct"
  /\ CountNote(state.trace, "answer", "done") >= 1
  /\ CountNote(state.trace, "retrieve", "start") = 0

\* ------------------------------------------------------------------- C16
DiamondGraph ==
  /\ Built
  /\ edges = <<[from |-> "A", to |-> "B1"], [from |-> "A", to |-> "B2"],
               [from |-> "B1", to |-> "C"], [from |-> "B2", to |-> "C"]>>

\* Some event before position i of the trace carries this node and note.
Before(tr, i, name, note) ==
  \E j \in 1..(i - 1) : tr[j].node = name /\ tr[j].note = note

\* C16: in the diamond C enters one frontier at most and is started once at
\* most, alone, after B1 and B2 have both completed, whichever of the two
\* completes first and however often B1 is retried; a run that returns has
\* executed C exactly once.
C16_Diamond ==
  DiamondGraph =>
    /\ TimesScheduled("C") <= 1
    /\ CountNote(state.trace, "C", "start") <= 1
    /\ CountNote(state.trace, "C", "start") = TimesScheduled("C")
    /\ \A k \in 1..Len(frontiers) : "C" \in Range(frontiers[k]) => frontiers[k] = <<"C">>
    /\ \A i \in 1..Len(state.trace) :
         (state.trace[i].node = "C" /\ state.trace[i].note = "start") =>
           /\ Before(state.trace, i, "B1", "done")
           /\ Before(state.trace, i, "B2", "done")
    /\ TimesScheduled("C") = 1 =>
         /\ state.k = 7
         /\ CountNote(state.trace, "B1", "done") = 1
         /\ CountNote(state.trace, "B2", "done") = 1
    /\ pc = "done" =>
         /\ frontiers = << <<"A">>, <<"B1", "B2">>, <<"C">> >>
         /\ CountNote(state.trace, "C", "done") = 1
         /\ state.z = 14

\* C has run once although B2 completed before B1, whose first attempt had
\* failed.
C16_Witness ==
  /\ DiamondGraph
  /\ pc = "done"
  /\ CountNote(state.trace, "B1", "start") = 2
  /\ lastDone(state.trace, "B2") < lastDone(state.trace, "B1")
  /\ CountNote(state.trace, "C", "start") = 1

\* ------------------------------------------------------------------- C17
Ended == pc \in {"done", "failed"}

\* C17: every run ends, by returning or by failing, cyclic graphs included;
\* it executes at most MAX_STEPS supersteps, and it returns only on an empty
\* frontier or an exhausted step budget.
C17_Terminates ==
  /\ <>Ended
  /\ [](Len(frontiers) <= MAX_STEPS /\ step <= MAX_STEPS + 1)
  /\ [](pc = "done" => (scheduled = <<>> \/ step > MAX_STEPS))
  /\ [](pc = "failed" => joinErr # NoErr)
  /\ [][Ended => pc' = pc]_vars

\* The self loop was stopped by the step budget with its successor still
\* scheduled.
C17_Witness ==
  /\ SelfLoopGraph
  /\ pc = "done"
  /\ scheduled = <<"A">>
  /\ step = MAX_STEPS + 1

\* ------------------------------------------------------------------- C18
\* The demo as code.ts runs it: dag.run(initial, "START").
DemoFromStart == DemoGraph /\ frontiers # <<>> /\ frontiers[1] = <<"START">>

\* C18 as stated: the demo run from START ends by returning a State that
\* holds draftAnswer and evaluation, after classify, answer, evaluate and
\* log_trace have each executed.
C18_DemoCompletes ==
  (DemoFromStart /\ Ended) =>
    /\ pc = "done"
    /\ {"draftAnswer", "evaluation"} \subseteq DOMAIN result.value
    /\ \A n \in {"classify", "answer", "evaluate", "log_trace"} :
         CountNote(state.trace, n, "done") >= 1

\* ------------------------------------------------------------------- C20
\* The successors of the results of a frontier, all computed on one state.
RECURSIVE successorsOn(_, _, _)
successorsOn(ts, st, i) ==
  IF i > Len(ts) THEN <<>>
  ELSE nextNodes(ts[i].node, st) \o successorsOn(ts, st, i + 1)

\* C20 as stated: the next frontier is what the edges of the nodes that ran
\* yield on the state that holds the outputs of the whole superstep.
C20_DecideOnMerged ==
  [][ (pc = "await" /\ pc' = "loop")
        => scheduled' = successorsOn(tasks, state', 1) ]_vars

\* ------------------------------------------------------------------- C19
\* The invocations of run that are alive.
Runs == {Current} \cup (IF parked = NoRun THEN {} ELSE {parked})

TwoRunGraph == Built /\ Len(edges) = 2 /\ "classify" \in DOMAIN nodes

\* The run of the graph from classify with this question and no other
\* invocation alive.
Alone(q) == refLoop(Initial(q), <<"classify">>, 0, <<>>)

\* C19: the locals of a suspended invocation change only when it is resumed;
\* every invocation goes through the frontiers, and returns the fields, of
\* the same run made alone; and nothing run does changes the node registry
\* or the edge table.
C19_Isolated ==
  /\ [][ (parked # NoRun /\ parked' # parked) => (parked' = Current /\ resume(parked)) ]_vars
  /\ [][ (parked = NoRun /\ parked' # NoRun) => parked' = Current ]_vars
  /\ [][ Built => (nodes' = nodes /\ edges' = edges) ]_vars
  /\ [](TwoRunGraph =>
          \A r \in Runs :
            /\ IsPrefix(r.frontiers, Alone(r.state.question).frontiers)
            /\ r.step = Len(r.frontiers)
            /\ r.pc # "failed"
            /\ r.pc = "done" =>
                 /\ r.frontiers = Alone(r.state.question).frontiers
                 /\ Fields(r.state) = Fields(Alone(r.state.question).state)
                 /\ Fields(r.result.value) = Fields(r.state)
                 /\ Len(r.state.trace) = 2 * Len(r.frontiers))

\* Both invocations have returned, each with the route of its own question
\* and after the frontiers of its own route.
C19_Witness ==
  /\ TwoRunGraph
  /\ parked # NoRun
  /\ pc = "done"
  /\ parked.pc = "done"
  /\ state.question = DemoQuestion
  /\ state.route = "rag"
  /\ parked.state.question = PlainQuestion
  /\ parked.state.route = "direct"
  /\ "chunks" \notin DOMAIN parked.state
  /\ Len(frontiers) = 3
  /\ Len(parked.frontiers) = 2

\* ------------------------------------------------------------------- C21
\* The keys tag operations of the graph write.
TagKeys ==
  {nodes[n].run.key : n \in {m \in DOMAIN nodes : nodes[m].run.fn = "tag"}}

\* The values of a state object that some attempt of the given superstep
\* produced.
FromSuperstep(st, k) ==
  {key \in (DOMAIN st) \cap TagKeys : st[key][2] = k}

\* C21: every attempt, first or retry, is handed the fields State had when
\* the superstep began; State's fields do not change while the frontier is
\* awaited, and no object handed to an attempt holds a value produced in the
\* attempt's own superstep.
C21_Snapshot ==
  /\ [][ (pc = "loop" /\ pc' = "await") =>
           \A i \in 1..Len(tasks') :
             tasks'[i].status = "running" => tasks'[i].given = Fields(state) ]_vars
  /\ [][ (pc = "await" /\ pc' \in {"await", "failed"}) =>
           Fields(state') = Fields(state) ]_vars
  /\ [][ \A i \in 1..Len(tasks) :
           (Len(tasks') = Len(tasks) /\ tasks[i].status = "sleeping"
              /\ tasks'[i].status = "running")
             => (tasks'[i].given = Fields(state) /\ Fields(state') = Fields(state)) ]_vars
  /\ [](Built =>
          \A i \in 1..Len(tasks) :
            tasks[i].status \in {"running", "sleeping", "resolved"}
              => FromSuperstep(tasks[i].given, superstep) = {})

\* B is in its second attempt while its sibling C has resolved already: the
\* object handed to the retry holds A's field and not C's.
C21_Witness ==
  /\ FanGraph
  /\ pc = "await"
  /\ Len(tasks) = 2
  /\ tasks[1].status = "running"
  /\ tasks[1].attempt = 1
  /\ tasks[2].status = "resolved"
  /\ DOMAIN tasks[2].out = {"c"}
  /\ tasks[1].given = [question |-> "q", a |-> AttemptId("A", 1, 1)]

\* ------------------------------------------------------------------- C22
UnequalGraph == Built /\ "B3" \in DOMAIN nodes

\* C22 as stated: with branches of unequal length C is started once, and
\* not before B1 and B3, its predecessors, have both completed.
C22_FanInWaits ==
  UnequalGraph =>
    /\ CountNote(state.trace, "C", "start") <= 1
    /\ \A i \in 1..Len(state.trace) :
         (state.trace[i].node = "C" /\ state.trace[i].note = "start") =>
           /\ Before(state.trace, i, "B1", "done")
           /\ Before(state.trace, i, "B3", "done")

\* ------------------------------------------------------------------- C23
\* The position of the first event of a trace with this node and note, 0 if
\* there is none.
firstAt(tr, name, note) ==
  LET at == {j \in 1..Len(tr) : tr[j].node = name /\ tr[j].note = note}
  IN IF at = {} THEN 0 ELSE CHOOSE j \in at : \A k \in at : j <= k

\* The start events of the registered members of a frontier, in order.
RECURSIVE startEvents(_)
startEvents(tr) ==
  IF tr = <<>> THEN <<>>
  ELSE (IF isRegistered(Head(tr)) THEN <<[node |-> Head(tr), note |-> "start"]>> ELSE <<>>)
         \o startEvents(Tail(tr))

\* C23: the step that opens a superstep records the start event of every
\* registered frontier member, in frontier order, and invokes every
\* operation, before it awaits anything; hence in the trace the first start
\* event of each member precedes the done events of all members.
C23_StartsFirst ==
  /\ [][ (pc = "loop" /\ pc' = "await") =>
           /\ state'.trace = state.trace \o startEvents(toRun')
           /\ \A i \in 1..Len(tasks') :
                isRegistered(toRun'[i]) =>
                  (tasks'[i].status = "running" /\ tasks'[i].attempt = 0) ]_vars
  /\ [](Built =>
          \A i, j \in 1..Len(tasks) :
            ( /\ isRegistered(tasks[i].node) /\ isRegistered(tasks[j].node)
              /\ TimesScheduled(tasks[i].node) = 1
              /\ TimesScheduled(tasks[j].node) = 1
              /\ CountNote(state.trace, tasks[j].node, "done") > 0 )
            => /\ firstAt(state.trace, tasks[i].node, "start") > 0
               /\ firstAt(state.trace, tasks[i].node, "start")
                    < firstAt(state.trace, tasks[j].node, "done"))

\* B has completed while C, started before B's completion, is still in
\* flight: the trace ends with start B, start C, done B.
C23_Witness ==
  /\ FanGraph
  /\ pc = "await"
  /\ Len(tasks) = 2
  /\ tasks[1].status = "resolved"
  /\ tasks[2].status = "running"
  /\ tasks[2].attempt = 0
  /\ Len(state.trace) = 5
  /\ state.trace[3] = [node |-> "B", note |-> "start"]
  /\ state.trace[4] = [node |-> "C", note |-> "start"]
  /\ state.trace[5] = [node |-> "B", note |-> "done"]

\* ------------------------------------------------------------------- C24
\* C24 as stated: a run that has returned has the budget event in its trace
\* exactly when it was stopped with work still scheduled.
C24_BudgetEventDistinguishes ==
  pc = "done" => (BudgetEvent \in Range(state.trace) <=> scheduled # <<>>)

\* ------------------------------------------------------------------- C25
\* C25 as stated: during a run every step leaves the events recorded so far
\* in place and at most appends to them, and no node has more done events
\* than start events.
C25_AppendOnly ==
  /\ [][ Built => IsPrefix(state.trace, state'.trace) ]_vars
  /\ [](Built =>
          \A n \in DOMAIN nodes :
            CountNote(state.trace, n, "done") <= CountNote(state.trace, n, "start"))

\* ------------------------------------------------------------------- C26
\* Every operation of the graph is a function of the fields it is handed
\* that neither fails nor is timed, the counting operation included.
ComputedGraph ==
  /\ Built
  /\ \A n \in DOMAIN nodes :
       /\ nodes[n].run.fn \in {"const", "succ", "twice", "noop", "count", "classify"}
       /\ ~nodes[n].run.fails
       /\ ~HasTimer(nodes[n])
       /\ Retries(nodes[n]) = 0
  /\ \A k \in 1..Len(frontiers) : Range(frontiers[k]) \subseteq DOMAIN nodes

\* run's loop without its three trace pushes, on a state without a trace.
RECURSIVE quietLoop(_, _, _, _)
quietLoop(st, sched, stp, fr) ==
  IF ~loopCond(sched, stp) THEN [state |-> st, frontiers |-> fr]
  ELSE LET tr == uniq(sched)
           ts == [i \in 1..Len(tr) |->
                    [node |-> tr[i], out |-> nodeRun(nodes[tr[i]].run, <<>>, st)]]
           m == mergeLoop(ts, st, <<>>, 1)
       IN quietLoop(m.state, m.scheduled, stp + 1, Append(fr, tr))

\* The run without trace recording of the graph and initial state of the
\* run in progress.
Quiet == quietLoop([question |-> state.question], <<frontiers[1][1]>>, 0, <<>>)

C27_LaterInFrontierWins ==
  /\ [][ (pc = "await" /\ pc' = "loop") =>
           \A i, j \in 1..Len(tasks) :
             i < j =>
               \A k \in (DOMAIN tasks[i].out) \cap (DOMAIN tasks[j].out) :
                 /\ toRun[j] = tasks[j].node
                 /\ (\A l \in (j + 1)..Len(tasks) : k \notin DOMAIN tasks[l].out)
                      => state'[k] = tasks[j].out[k] ]_vars
  /\ []((DiamondGraph /\ Len(frontiers) >= 2 /\ pc \in {"loop", "done"} /\ "k" \in DOMAIN state)
          => (frontiers[2] = <<"B1", "B2">> /\ state.k = 7))
  /\ []((DiamondGraph /\ pc = "await" /\ superstep = 2) => "k" \notin DOMAIN state)

\* B1 and B2 have both returned k, B1 completed after B2, and the merge
\* has kept B2's value.
C27_Witness ==
  /\ DiamondGraph
  /\ pc = "loop"
  /\ superstep = 2
  /\ tasks[1].out = [k |-> 2]
  /\ tasks[2].out = [k |-> 7]
  /\ lastDone(state.trace, "B2") < lastDone(state.trace, "B1")
  /\ state.k = 7

\* ------------------------------------------------------------------- C28
\* The attempts of a node's operation that are executing: the one run
\* awaits, if any, and those that were timed out and have not settled.
Awaited(n) == {i \in 1..Len(tasks) : tasks[i].node = n /\ tasks[i].status = "running"}
Abandoned(n) == {id \in leaked : id[1] = n}
InFlight(n) == Cardinality(Awaited(n)) + Cardinality(Abandoned(n))

\* C28 as stated: no node has two attempts of its operation executing.
C28_OneInFlight ==
  Built => \A n \in DOMAIN nodes : InFlight(n) <= 1

\* C28 amended: run awaits at most one attempt of a node at a time, and a
\* retry is started only in a later step than the failure of the attempt
\* before it; but an attempt that was timed out is not cancelled, so the
\* attempts executing are the awaited one plus the timed-out ones that have
\* not settled, each an earlier attempt than the awaited one.
C28_OneAwaited ==
  /\ [](Built =>
          \A n \in DOMAIN nodes :
            /\ Cardinality(Awaited(n)) <= 1
            /\ Abandoned(n) \subseteq timedOut
            /\ ~HasTimer(nodes[n]) => Abandoned(n) = {}
            /\ \A i \in Awaited(n) :
                 \A id \in Abandoned(n) :
                   id[2] < superstep \/ (id[2] = superstep /\ id[3] <= tasks[i].attempt))
  /\ [][ \A i \in 1..Len(tasks) :
           (Len(tasks') = Len(tasks) /\ tasks'[i].node = tasks[i].node
              /\ tasks'[i].attempt > tasks[i].attempt)
             => /\ tasks[i].status = "running"
                /\ tasks'[i].status \in {"sleeping", "rejected"} ]_vars

\* The first attempt of A was timed out and is still executing while the
\* second attempt is in flight.
C28_Witness ==
  /\ pc = "await"
  /\ Len(tasks) = 1
  /\ tasks[1].node = "A"
  /\ tasks[1].status = "running"
  /\ tasks[1].attempt = 1
  /\ AttemptId("A", 1, 1) \in leaked
  /\ InFlight("A") = 2

\* ------------------------------------------------------------------- C29
\* C29: once run has reported a failure to its caller, no attempt of a node
\* operation of that run is started or settled and waiting to be retried,
\* and the trace does not grow any more.
C29_FailureEndsRun ==
  [][ pc = "failed" =>
        /\ state'.trace = state.trace
        /\ tasks' = tasks ]_vars

\* ------------------------------------------------------------------- C30
\* C30: a node contributes at most one done event for each superstep it ran
\* in, the one of the attempt whose result was merged; an attempt that timed
\* out or failed contributes none.
C30_DoneIsMerged ==
  (Built /\ hasTrace(state)) =>
    \A n \in DOMAIN nodes :
      CountNote(state.trace, n, "done") <= TimesScheduled(n)

====
